---- MODULE Spec2Model ----
(***************************************************************************)
(* OAuth token lifecycle of the fitness agent: app/auth.py and             *)
(* app/token_store.py, with the logout route of routes/auth_routes.py.     *)
(*                                                                         *)
(* The application runs on one asyncio event loop, so a coroutine runs     *)
(* without interruption up to its `await client.post(...)`; every other    *)
(* statement sequence is one atomic step.  A call that reaches the POST    *)
(* is therefore two steps (up to the POST, and from the response on),      *)
(* with the provider answering in between; all other calls are one step.   *)
(***************************************************************************)
EXTENDS Integers, Sequences, FiniteSets, Bags, TLC

(***************************************************************************)
(* Bounds of the model.                                                    *)
(***************************************************************************)
\* number of POSTs to the token endpoints in one behaviour
MaxPosts == 2
\* the same, for the behaviours in which two refreshes race (SpecRace)
MaxRacePosts == 3
\* number of clock steps of 150 seconds
MaxTicks == 1
\* number of scope names in a configured scope string (SpecUrl)
MaxScopes == 2
\* number of pages of activities the Strava API has (SpecPages): the last
\* of them is a short one
MaxPages == 3
\* number of POSTs to the token endpoint while the pages are fetched
MaxPagePosts == 2

(***************************************************************************)
(* Program constants.                                                      *)
(***************************************************************************)
\* token_store.py: `tokens["expires_at"] - 300`
EXPIRY_BUFFER == 300

\* clients/strava.py get_all_activities: `per_page=200`, `len(batch) < 200`
PER_PAGE == 200

\* auth_routes.py SUPPORTED_PROVIDERS, the keys of auth.py PROVIDERS
SUPPORTED_PROVIDERS == {"strava", "whoop"}

\* provider ids a caller may pass: the supported ones and an unsupported one
ProviderIds == SUPPORTED_PROVIDERS \cup {"garmin"}

\* the requests the event loop serves at a time (the concurrent callers)
Callers == {"c1", "c2"}

\* Python's None / JSON null, and the absent Optional[dict]
NULL == "null"
None == [none |-> TRUE]

\* opaque tokens handed out by the providers, by serial number
AccessTokens == <<"A1", "A2", "A3", "A4", "A5", "A6">>
RefreshTokens == <<"R1", "R2", "R3", "R4", "R5", "R6">>

\* config.py class Settings: the defaults.  A string that goes into the
\* query of the authorization URL is written as the sequence of its lexemes
\* (words and punctuation characters), so that the characters between the
\* scope names can be told.
Settings ==
  [ strava_client_id |-> <<>>,
    strava_auth_url  |-> "https://www.strava.com/oauth/authorize",
    strava_token_url |-> "https://www.strava.com/oauth/token",
    strava_scopes    |-> <<"read", ",", "activity", ":", "read_all">>,
    whoop_client_id  |-> <<>>,
    whoop_auth_url   |-> "https://api.prod.whoop.com/oauth/oauth2/auth",
    whoop_token_url  |-> "https://api.prod.whoop.com/oauth/oauth2/token",
    whoop_scopes     |-> <<"read", ":", "recovery", " ", "read", ":", "sleep", " ",
                           "read", ":", "workout", " ", "read", ":", "profile", " ",
                           "read", ":", "body_measurement">>,
    app_base_url     |-> <<"http", ":", "/", "/", "localhost", ":", "8000">> ]

\* the characters that separate scope names (PROVIDERS scope_separator)
Separators == {",", " "}

\* scope names a deployment may configure
ScopeNames == { <<"read">>, <<"activity", ":", "read_all">>, <<"read", ":", "sleep">> }

\* names joined by the character sep, as str.join does
RECURSIVE Join(_, _)
Join(names, sep) ==
  IF names = <<>> THEN <<>>
  ELSE IF Len(names) = 1 THEN names[1]
  ELSE names[1] \o <<sep>> \o Join(Tail(names), sep)

\* the lists of 1 to n different scope names
RECURSIVE ScopeLists(_)
ScopeLists(n) ==
  IF n = 0 THEN {}
  ELSE LET shorter == ScopeLists(n - 1) IN
       { <<x>> : x \in ScopeNames }
       \cup shorter
       \cup UNION { { <<x>> \o l : l \in { m \in shorter : \A i \in 1..Len(m) : m[i] # x } } :
                     x \in ScopeNames }

\* the scope strings STRAVA_SCOPES / WHOOP_SCOPES may be set to in .env
ScopeStrings == { Join(l, sep) : l \in ScopeLists(MaxScopes), sep \in Separators }

\* the values APP_BASE_URL may be set to
BaseUrls ==
  { <<"http", ":", "/", "/", "localhost", ":", "8000">>,
    <<"https", ":", "/", "/", "trainer", ".", "example", ".", "com">> }

\* Settings(): the defaults with the scope strings and the base URL as the
\* environment sets them
Configurations ==
  { [Settings EXCEPT !.strava_scopes = a, !.whoop_scopes = b, !.app_base_url = u] :
      a \in ScopeStrings, b \in ScopeStrings, u \in BaseUrls }

VARIABLES
  settings,  \* config.py `settings = Settings()`: the defaults, overridden by
             \* the environment and .env; fixed for the life of the process
  store,     \* contents of token_store.json: a dict provider -> record
  now,       \* time.time()
  inflight,  \* the calls suspended in `await client.post(...)`: a bag of
             \* [op, grant, provider, tokens, resp], resp = None until answered
  quota,     \* number of POSTs the behaviour is followed for (a bound)
  posted,    \* number of POSTs sent to the token endpoints so far
  issued,    \* provider side: number of 2xx token responses handed out
  latest,    \* provider side: refresh token most recently issued, per provider
  phase,     \* history, per supported provider: "never" until a code exchange
             \* has stored a record, "exchanged" since the last one that did,
             \* "deleted" since a logout that came after it
  result,    \* what the last step gave back to its caller: exception and return
             \* value of the call it ended, NoResult if it ended none
  pc,        \* get_all_activities: where the call is ("idle" before it,
             \* "refresh" and "get" in its two awaits, "done", "failed")
  page,      \* get_all_activities: local `page`
  all_activities,  \* get_all_activities: local `all_activities`
  sent,      \* history: the GETs of the call, [page, per_page, token] each
  batches    \* history: the number of items of each page the Strava API
             \* answered the call with

\* the state of get_all_activities
pager == <<pc, page, all_activities, sent, batches>>

vars == <<settings, store, now, inflight, quota, posted, issued, latest, phase, result,
          pc, page, all_activities, sent, batches>>

\* auth.py PROVIDERS: a dict with exactly the two supported keys
PROVIDERS ==
  [ p \in SUPPORTED_PROVIDERS |->
      IF p = "strava"
      THEN [ client_id |-> settings.strava_client_id,
             auth_url |-> settings.strava_auth_url,
             token_url |-> settings.strava_token_url,
             scopes |-> settings.strava_scopes,
             scope_separator |-> "," ]
      ELSE [ client_id |-> settings.whoop_client_id,
             auth_url |-> settings.whoop_auth_url,
             token_url |-> settings.whoop_token_url,
             scopes |-> settings.whoop_scopes,
             scope_separator |-> " " ] ]

(***************************************************************************)
(* Python helpers.                                                         *)
(***************************************************************************)
\* truth value of an Optional[str]
Truthy(v) == v # NULL /\ v # ""

\* d[k] = v on a dict
DictSet(d, k, v) == [x \in DOMAIN d \cup {k} |-> IF x = k THEN v ELSE d[x]]

\* d.pop(k, None) on a dict
DictPop(d, k) == [x \in DOMAIN d \ {k} |-> d[x]]

(***************************************************************************)
(* token_store.py                                                          *)
(***************************************************************************)
\* mutant: expires_in, when there, overrides the response's expires_at
NormalizePreferExpiresIn(token_data, t) ==
  IF "expires_in" \in DOMAIN token_data
  THEN DictSet(token_data, "expires_at", t + token_data["expires_in"])
  ELSE token_data

\* save_tokens, lines 37-39: expires_in becomes an absolute expires_at,
\* only when the response carries no expires_at of its own
NormalizeExpiry(token_data, t) ==
  IF "expires_at" \notin DOMAIN token_data /\ "expires_in" \in DOMAIN token_data
  THEN DictSet(token_data, "expires_at", t + token_data["expires_in"])
  ELSE token_data

\* mutant: token_data.get("expires_in", 0) for token_data.get("expires_at", 0)
StoredRecordOfExpiresIn(token_data) ==
  [ access_token  |-> token_data["access_token"],
    refresh_token |-> token_data["refresh_token"],
    expires_at    |-> IF "expires_in" \in DOMAIN token_data
                      THEN token_data["expires_in"] ELSE 0 ]

\* save_tokens, lines 41-45: the record built from the (normalized) response;
\* token_data.get("expires_at", 0)
StoredRecord(token_data) ==
  [ access_token  |-> token_data["access_token"],
    refresh_token |-> token_data["refresh_token"],
    expires_at    |-> IF "expires_at" \in DOMAIN token_data
                      THEN token_data["expires_at"] ELSE 0 ]

\* mutant: the file is written with the one record alone, not with the
\* loaded store
save_tokens_one_entry(s, provider, token_data, t) ==
  LET td == NormalizeExpiry(token_data, t) IN
  IF {"access_token", "refresh_token"} \subseteq DOMAIN td
  THEN [ raised |-> "none", store |-> DictSet(<<>>, provider, StoredRecord(td)), token_data |-> td ]
  ELSE [ raised |-> "KeyError", store |-> s, token_data |-> td ]

\* save_tokens(provider, token_data) at time t on store s.  The subscripts
\* token_data["access_token"] / ["refresh_token"] raise KeyError before
\* _save_store is reached, so nothing is written then.
save_tokens(s, provider, token_data, t) ==
  LET td == NormalizeExpiry(token_data, t) IN
  IF {"access_token", "refresh_token"} \subseteq DOMAIN td
  THEN [ raised |-> "none", store |-> DictSet(s, provider, StoredRecord(td)), token_data |-> td ]
  ELSE [ raised |-> "KeyError", store |-> s, token_data |-> td ]

\* get_tokens(provider): store.get(provider)
get_tokens(s, provider) ==
  IF provider \in DOMAIN s THEN s[provider] ELSE None

\* mutant: `>=` for `>`
is_token_expired_at_boundary(s, provider, t) ==
  LET tk == get_tokens(s, provider) IN
  IF tk = None THEN TRUE
  ELSE t >= tk.expires_at - EXPIRY_BUFFER

\* mutant: the 5 min buffer left out
is_token_expired_no_buffer(s, provider, t) ==
  LET tk == get_tokens(s, provider) IN
  IF tk = None THEN TRUE
  ELSE t > tk.expires_at

\* mutant: a missing record counts as not expired
is_token_expired_missing_is_valid(s, provider, t) ==
  LET tk == get_tokens(s, provider) IN
  IF tk = None THEN FALSE
  ELSE t > tk.expires_at - EXPIRY_BUFFER

\* is_token_expired(provider) at time t
is_token_expired(s, provider, t) ==
  LET tk == get_tokens(s, provider) IN
  IF tk = None THEN TRUE
  ELSE t > tk.expires_at - EXPIRY_BUFFER

\* mutant: the popped store is never written back
delete_tokens_not_saved(s, provider) == s

\* delete_tokens(provider)
delete_tokens(s, provider) == DictPop(s, provider)

(***************************************************************************)
(* auth.py                                                                 *)
(***************************************************************************)
\* cfg = PROVIDERS[provider] raises KeyError for a key the dict lacks
KnownProvider(provider) == provider \in DOMAIN PROVIDERS

\* get_authorize_url(provider): f"{cfg['auth_url']}?{query}", the query being
\* the k=v pairs of params in order, joined by `&`, the values put in as
\* they are (nothing is percent-encoded)
get_authorize_url(provider) ==
  IF ~KnownProvider(provider)
  THEN [ raised |-> "KeyError", value |-> None ]
  ELSE LET cfg == PROVIDERS[provider]
           redirect_uri == settings.app_base_url \o <<"/", "auth", "/", provider, "/", "callback">>
           params == << <<"client_id", cfg.client_id>>,
                        <<"redirect_uri", redirect_uri>>,
                        <<"response_type", <<"code">> >>,
                        <<"scope", cfg.scopes>> >>
       IN [ raised |-> "none",
            value  |-> [ endpoint |-> cfg.auth_url, query |-> params ] ]

\* mutant: only `not tokens` is tested
NoRefreshTokenOnlyNone(tk) == tk = None

\* refresh_tokens, line 97: `not tokens or not tokens.get("refresh_token")`
NoRefreshToken(tk) ==
  \/ tk = None
  \/ ~Truthy(tk.refresh_token)

\* mutant: lines 113-114 left out
ReattachNothing(token_data, tk) == token_data

\* mutant: the stored refresh token always wins over the response's
ReattachAlways(token_data, tk) ==
  DictSet(token_data, "refresh_token", tk.refresh_token)

\* refresh_tokens, lines 113-114: keep the stored refresh token when the
\* response has no "refresh_token" key
ReattachRefreshToken(token_data, tk) ==
  IF "refresh_token" \notin DOMAIN token_data
  THEN DictSet(token_data, "refresh_token", tk.refresh_token)
  ELSE token_data

\* mutant: raise_for_status() left out
IsSuccessUnchecked(status) == TRUE

\* response.raise_for_status(): anything but success raises HTTPStatusError
IsSuccess(status) == status >= 200 /\ status < 300

\* the two ValueError messages of auth.py (lines 98 and 131)
MSG_REAUTHENTICATE == "No refresh token stored for {provider}. Re-authenticate."
MSG_VISIT_LOGIN == "Not authenticated with {provider}. Visit /auth/{provider}/login"

(***************************************************************************)
(* How a call ends: the operation and its provider argument, the exception *)
(* it raised ("none" when it returned), the message of a ValueError, and   *)
(* the value it returned.                                                  *)
(***************************************************************************)
Result(o, p, out, msg, ret) ==
  [ op |-> o, provider |-> p, out |-> out, msg |-> msg, ret |-> ret ]

NoResult == Result("none", "none", "pending", "", None)

\* a returned str, boxed: return values are dicts, strs or None, and TLC
\* compares only values of one kind
Str(v) == [str |-> v]

\* a call in flight: operation entered, grant_type posted, provider, the
\* `tokens` local of refresh_tokens, and the response once it is there
Call(o, grant, p, tk) ==
  [ op |-> o, grant |-> grant, provider |-> p, tokens |-> tk, resp |-> None ]

One(c) == SetToBag({c})

\* a caller is free to take a request
CallerFree == BagCardinality(inflight) < Cardinality(Callers)

\* the state after start-up with no token_store.json
Start ==
  /\ store = <<>>
  /\ now = 0
  /\ inflight = EmptyBag
  /\ posted = 0
  /\ issued = 0
  /\ latest = [p \in SUPPORTED_PROVIDERS |-> NULL]
  /\ phase = [p \in SUPPORTED_PROVIDERS |-> "never"]
  /\ result = NoResult
  /\ pc = "idle"
  /\ page = 0
  /\ all_activities = <<>>
  /\ sent = <<>>
  /\ batches = <<>>

Init == Start /\ settings = Settings /\ quota = MaxPosts

InitRace == Start /\ settings = Settings /\ quota = MaxRacePosts

\* a call that ends within one step and sends nothing
Returns(o, p, out, msg, ret) ==
  /\ result' = Result(o, p, out, msg, ret)
  /\ UNCHANGED <<inflight, quota, posted>>

\* a call suspends in `await client.post(cfg["token_url"], data=payload)`
Sends(o, grant, p, tk) ==
  /\ posted < quota
  /\ UNCHANGED quota
  /\ posted' = posted + 1
  /\ inflight' = inflight (+) One(Call(o, grant, p, tk))
  /\ result' = NoResult

\* the call c, resumed with the response to its POST, ends
Resumes(c, out, ret) ==
  /\ UNCHANGED <<quota, posted>>
  /\ inflight' = inflight (-) One(c)
  /\ result' = Result(c.op, c.provider, out, "", ret)

\* mutant: starting a login drops the tokens stored for the provider
AuthorizeUrlClearsTokens(p) ==
  /\ CallerFree
  /\ LET r == get_authorize_url(p) IN Returns("get_authorize_url", p, r.raised, "", r.value)
  /\ store' = IF KnownProvider(p) THEN delete_tokens(store, p) ELSE store
  /\ UNCHANGED <<settings, now, issued, latest, phase>>

\* get_authorize_url(provider)
AuthorizeUrl(p) ==
  /\ CallerFree
  /\ LET r == get_authorize_url(p) IN Returns("get_authorize_url", p, r.raised, "", r.value)
  /\ UNCHANGED <<settings, store, now, issued, latest, phase>>

\* exchange_code_for_tokens(provider, code), lines 69-81
ExchangeStart(p) ==
  /\ CallerFree
  /\ IF ~KnownProvider(p)
     THEN Returns("exchange_code_for_tokens", p, "KeyError", "", None)
     ELSE Sends("exchange_code_for_tokens", "authorization_code", p, None)
  /\ UNCHANGED <<settings, store, now, issued, latest, phase>>

\* mutant: the guard of line 97 left out, a missing record read as a blank one
RefreshBeginUnguarded(o, p) ==
  IF ~KnownProvider(p)
  THEN Returns(o, p, "KeyError", "", None)
  ELSE LET tk == get_tokens(store, p) IN
       Sends(o, "refresh_token", p,
             IF tk = None
             THEN [access_token |-> NULL, refresh_token |-> NULL, expires_at |-> 0]
             ELSE tk)

\* refresh_tokens(provider), lines 94-108, entered through operation o
RefreshBegin(o, p) ==
  IF ~KnownProvider(p)
  THEN Returns(o, p, "KeyError", "", None)
  ELSE LET tk == get_tokens(store, p) IN
       IF NoRefreshToken(tk)
       THEN Returns(o, p, "ValueError", MSG_REAUTHENTICATE, None)
       ELSE Sends(o, "refresh_token", p, tk)

RefreshStart(p) ==
  /\ CallerFree
  /\ RefreshBegin("refresh_tokens", p)
  /\ UNCHANGED <<settings, store, now, issued, latest, phase>>

\* get_valid_access_token(provider), lines 125-132
GetValidAccessToken(p) ==
  /\ CallerFree
  /\ IF is_token_expired(store, p, now)
     THEN RefreshBegin("get_valid_access_token", p)
     ELSE LET tk == get_tokens(store, p) IN
          IF tk = None
          THEN Returns("get_valid_access_token", p, "ValueError", MSG_VISIT_LOGIN, None)
          ELSE Returns("get_valid_access_token", p, "none", "", Str(tk.access_token))
  /\ UNCHANGED <<settings, store, now, issued, latest, phase>>

(***************************************************************************)
(* The provider's token endpoint (the far side of client.post).            *)
(***************************************************************************)
\* The 2xx token responses the providers give: what the body does about
\* refresh_token (a fresh one, no such key, JSON null, the empty string),
\* its expires_in and its expires_at (a set: empty when the key is absent).
\* Spec section 6: access_token is always there.
ResponseShapes ==
  { <<"fresh",  {300}, {}>>,
    <<"fresh",  {300}, {600}>>,
    <<"fresh",  {},    {}>>,
    <<"absent", {300}, {}>>,
    <<"null",   {300}, {}>>,
    <<"empty",  {300}, {}>> }

\* the JSON body of the n-th 2xx token response
TokenBody(n, shape, ei, ea) ==
  LET b0 == [access_token |-> AccessTokens[n]]
      b1 == CASE shape = "fresh"  -> DictSet(b0, "refresh_token", RefreshTokens[n])
              [] shape = "null"   -> DictSet(b0, "refresh_token", NULL)
              [] shape = "empty"  -> DictSet(b0, "refresh_token", "")
              [] shape = "absent" -> b0
      b2 == IF ei = {} THEN b1 ELSE DictSet(b1, "expires_in", CHOOSE x \in ei : TRUE)
  IN IF ea = {} THEN b2 ELSE DictSet(b2, "expires_at", CHOOSE x \in ea : TRUE)

\* the call c gets the response r to its POST
Answer(c, r) == inflight' = (inflight (-) One(c)) (+) One([c EXCEPT !.resp = r])

\* the provider answers the POST of call c with a token response
RespondOk(c) ==
  /\ BagIn(c, inflight)
  /\ c.resp = None
  /\ \E sh \in ResponseShapes :
       /\ Answer(c, [status |-> 200, body |-> TokenBody(issued + 1, sh[1], sh[2], sh[3])])
       /\ latest' = IF sh[1] = "fresh"
                    THEN [latest EXCEPT ![c.provider] = RefreshTokens[issued + 1]]
                    ELSE latest
  /\ issued' = issued + 1
  /\ result' = NoResult
  /\ UNCHANGED <<settings, store, now, quota, posted, phase>>

\* the provider answers the POST of call c with an error status
RespondError(c) ==
  /\ BagIn(c, inflight)
  /\ c.resp = None
  /\ Answer(c, [status |-> 401, body |-> <<>>])
  /\ result' = NoResult
  /\ UNCHANGED <<settings, store, now, quota, posted, issued, latest, phase>>

(***************************************************************************)
(* The second half of the calls that POST.                                 *)
(***************************************************************************)
\* exchange_code_for_tokens, lines 82-86
ExchangeComplete(c) ==
  /\ BagIn(c, inflight)
  /\ c.grant = "authorization_code"
  /\ c.resp # None
  /\ IF ~IsSuccess(c.resp.status)
     THEN /\ Resumes(c, "HTTPStatusError", None)
          /\ UNCHANGED <<store, phase>>
     ELSE LET r == save_tokens(store, c.provider, c.resp.body, now) IN
          /\ store' = r.store
          /\ phase' = IF r.raised = "none"
                       THEN [phase EXCEPT ![c.provider] = "exchanged"]
                       ELSE phase
          /\ Resumes(c, r.raised, IF r.raised = "none" THEN r.token_data ELSE None)
  /\ UNCHANGED <<settings, now, issued, latest>>

\* mutant: get_valid_access_token returns the access token read before the
\* refresh instead of token_data["access_token"]
RefreshCompleteReturnsStale(c) ==
  /\ BagIn(c, inflight)
  /\ c.grant = "refresh_token"
  /\ c.resp # None
  /\ IF ~IsSuccess(c.resp.status)
     THEN /\ Resumes(c, "HTTPStatusError", None)
          /\ UNCHANGED store
     ELSE LET td == ReattachRefreshToken(c.resp.body, c.tokens)
              r == save_tokens(store, c.provider, td, now)
          IN /\ store' = r.store
             /\ Resumes(c, r.raised,
                        IF r.raised # "none" THEN None
                        ELSE IF c.op = "get_valid_access_token"
                             THEN Str(c.tokens.access_token)
                             ELSE r.token_data)
  /\ UNCHANGED <<settings, now, issued, latest, phase>>

\* refresh_tokens, lines 109-117, and get_valid_access_token, line 127
RefreshComplete(c) ==
  /\ BagIn(c, inflight)
  /\ c.grant = "refresh_token"
  /\ c.resp # None
  /\ IF ~IsSuccess(c.resp.status)
     THEN /\ Resumes(c, "HTTPStatusError", None)
          /\ UNCHANGED store
     ELSE LET td == ReattachRefreshToken(c.resp.body, c.tokens)
              r == save_tokens(store, c.provider, td, now)
          IN /\ store' = r.store
             /\ Resumes(c, r.raised,
                        IF r.raised # "none" THEN None
                        ELSE IF c.op = "get_valid_access_token"
                             THEN Str(r.token_data["access_token"])
                             ELSE r.token_data)
  /\ UNCHANGED <<settings, now, issued, latest, phase>>

(***************************************************************************)
(* auth_routes.py logout: _validate_provider, then delete_tokens.          *)
(***************************************************************************)
Logout(p) ==
  /\ CallerFree
  /\ IF p \notin SUPPORTED_PROVIDERS
     THEN /\ Returns("logout", p, "HTTPException", "", None)
          /\ UNCHANGED <<store, phase>>
     ELSE /\ store' = delete_tokens(store, p)
          /\ phase' = IF phase[p] = "never" THEN phase
                       ELSE [phase EXCEPT ![p] = "deleted"]
          /\ Returns("logout", p, "none", "", None)
  /\ UNCHANGED <<settings, now, issued, latest>>

\* time passes, in steps of 150 seconds
Tick ==
  /\ now + 150 <= MaxTicks * 150
  /\ now' = now + 150
  /\ result' = NoResult
  /\ UNCHANGED <<settings, store, inflight, quota, posted, issued, latest, phase>>

\* the calls of auth.py and the logout route, with no get_all_activities
\* call under way
Next ==
  \/ \E p \in ProviderIds : AuthorizeUrl(p) /\ UNCHANGED pager
  \/ \E p \in ProviderIds : ExchangeStart(p) /\ UNCHANGED pager
  \/ \E p \in ProviderIds : RefreshStart(p) /\ UNCHANGED pager
  \/ \E p \in ProviderIds : GetValidAccessToken(p) /\ UNCHANGED pager
  \/ \E p \in ProviderIds : Logout(p) /\ UNCHANGED pager
  \/ \E c \in BagToSet(inflight) : RespondOk(c) /\ UNCHANGED pager
  \/ \E c \in BagToSet(inflight) : RespondError(c) /\ UNCHANGED pager
  \/ \E c \in BagToSet(inflight) : ExchangeComplete(c) /\ UNCHANGED pager
  \/ \E c \in BagToSet(inflight) : RefreshComplete(c) /\ UNCHANGED pager
  \/ Tick /\ UNCHANGED pager

Spec == Init /\ [][Next]_vars

SpecRace == InitRace /\ [][Next]_vars

\* get_authorize_url under every configuration: no POST is ever needed
InitUrl == Start /\ settings \in Configurations /\ quota = 0

NextUrl == \E p \in ProviderIds : AuthorizeUrl(p) /\ UNCHANGED pager

SpecUrl == InitUrl /\ [][NextUrl]_vars

(***************************************************************************)
(* clients/strava.py: get_all_activities, through get_activities and _get. *)
(* The call runs without interruption from one await to the next: it is    *)
(* suspended in the refresh POST of get_valid_access_token (pc "refresh")  *)
(* or in client.get (pc "get").                                            *)
(***************************************************************************)
\* the items of page k of the athlete's activities, n of them
Batch(k, n) == [i \in 1..n |-> <<k, i>>]

\* the numbers of items the Strava API answers a page request with
BatchSizes == {0, 1, PER_PAGE - 1, PER_PAGE}

\* a GET /athlete/activities as _get sends it
PageRequest(pg, token) == [page |-> pg, per_page |-> PER_PAGE, token |-> token]

\* _get, lines 23-31, for page pg: token = await get_valid_access_token("strava"),
\* which returns at once, raises, or is suspended in its refresh; with the
\* token, client.get is sent
RequestPage(pg) ==
  /\ GetValidAccessToken("strava")
  /\ IF result'.out = "none"
     THEN /\ pc' = "get"
          /\ sent' = Append(sent, PageRequest(pg, result'.ret.str))
     ELSE /\ pc' = IF result'.out = "pending" THEN "refresh" ELSE "failed"
          /\ UNCHANGED sent

\* get_all_activities(days), lines 77-81: up to the first await that suspends
GetAllActivities ==
  /\ pc = "idle"
  /\ all_activities' = <<>>
  /\ page' = 1
  /\ UNCHANGED batches
  /\ RequestPage(1)

\* _get, lines 23-31: resumed with the response to the refresh POST
TokenRefreshed ==
  /\ pc = "refresh"
  /\ \E c \in BagToSet(inflight) :
       /\ c.op = "get_valid_access_token"
       /\ RefreshComplete(c)
  /\ IF result'.out = "none"
     THEN /\ pc' = "get"
          /\ sent' = Append(sent, PageRequest(page, result'.ret.str))
     ELSE /\ pc' = "failed"
          /\ UNCHANGED sent
  /\ UNCHANGED <<page, all_activities, batches>>

\* get_all_activities returns all_activities: nothing more is sent
Stop ==
  /\ pc' = "done"
  /\ result' = NoResult
  /\ UNCHANGED <<settings, store, now, inflight, quota, posted, issued, latest, phase>>
  /\ UNCHANGED <<page, sent>>

\* mutant: `page += 1` left out
PageArrivesSamePage(n) ==
  /\ pc = "get"
  /\ n = PER_PAGE => page < MaxPages
  /\ LET batch == Batch(page, n) IN
     /\ batches' = Append(batches, Len(batch))
     /\ IF batch = <<>>
        THEN /\ UNCHANGED all_activities
             /\ Stop
        ELSE /\ all_activities' = all_activities \o batch
             /\ IF Len(batch) < PER_PAGE
                THEN Stop
                ELSE /\ page' = page
                     /\ RequestPage(page)

\* _get, lines 32-33, with a 2xx answer of n items to the GET of `page`, and
\* get_all_activities, lines 82-87 and 81: the batch is taken in, and the
\* loop ends or asks for the next page.  (The API has MaxPages pages.)
PageArrives(n) ==
  /\ pc = "get"
  /\ n = PER_PAGE => page < MaxPages
  /\ LET batch == Batch(page, n) IN
     /\ batches' = Append(batches, Len(batch))
     /\ IF batch = <<>>
        THEN /\ UNCHANGED all_activities
             /\ Stop
        ELSE /\ all_activities' = all_activities \o batch
             /\ IF Len(batch) < PER_PAGE
                THEN Stop
                ELSE /\ page' = page + 1
                     /\ RequestPage(page + 1)

\* _get, line 32: the GET is answered with an error status (or times out),
\* and the exception goes up through get_all_activities
PageFails ==
  /\ pc = "get"
  /\ pc' = "failed"
  /\ result' = NoResult
  /\ UNCHANGED <<settings, store, now, inflight, quota, posted, issued, latest, phase>>
  /\ UNCHANGED <<page, all_activities, sent, batches>>

\* one get_all_activities call, with the code exchange and the logout of
\* strava, the clock and the token endpoint around it
InitPages == Start /\ settings = Settings /\ quota = MaxPagePosts

\* (a code exchange is taken on only while the get_all_activities call
\* keeps its place among the requests the event loop serves)
NextPages ==
  \/ /\ pc = "get" => BagCardinality(inflight) + 1 < Cardinality(Callers)
     /\ ExchangeStart("strava")
     /\ UNCHANGED pager
  \/ \E c \in BagToSet(inflight) : RespondOk(c) /\ UNCHANGED pager
  \/ \E c \in BagToSet(inflight) : RespondError(c) /\ UNCHANGED pager
  \/ \E c \in BagToSet(inflight) : ExchangeComplete(c) /\ UNCHANGED pager
  \/ Logout("strava") /\ UNCHANGED pager
  \/ Tick /\ UNCHANGED pager
  \/ GetAllActivities
  \/ TokenRefreshed
  \/ \E n \in BatchSizes : PageArrives(n)
  \/ PageFails

\* the event loop resumes a call whose awaited response is there, and httpx
\* ends every request with a response or, at its timeout, with an exception
PagesFairness ==
  /\ WF_vars(TokenRefreshed)
  /\ WF_vars((\E n \in BatchSizes : PageArrives(n)) \/ PageFails)
  /\ WF_vars(\E c \in BagToSet(inflight) :
               (RespondOk(c) \/ RespondError(c)) /\ UNCHANGED pager)

SpecPages == InitPages /\ [][NextPages]_vars /\ PagesFairness

(***************************************************************************)
(* Properties.                                                             *)
(***************************************************************************)
Calls == BagToSet(inflight)

\* the expiry a record written at time t from a response body is to carry
ExpiryOf(body, t) ==
  IF "expires_at" \in DOMAIN body THEN body["expires_at"]
  ELSE IF "expires_in" \in DOMAIN body THEN t + body["expires_in"]
  ELSE 0

\* refresh_tokens ends with a 2xx response to its POST
RefreshSucceeds(c) == RefreshComplete(c) /\ IsSuccess(c.resp.status)

\* exchange_code_for_tokens ends with a 2xx response to its POST
ExchangeSucceeds(c) == ExchangeComplete(c) /\ IsSuccess(c.resp.status)

\* C1: a refresh that read a record with refresh token R1 and gets a 2xx
\* response without a refresh_token key returns normally and persists a
\* record with refresh token R1 (a real token, neither null nor empty),
\* the response's access_token and the expiry the response gives.
C1_OmittedRefreshTokenIsKept ==
  [][\A c \in Calls :
       (RefreshSucceeds(c) /\ "refresh_token" \notin DOMAIN c.resp.body)
       => /\ result'.out = "none"
          /\ c.provider \in DOMAIN store'
          /\ store'[c.provider].refresh_token = c.tokens.refresh_token
          /\ Truthy(store'[c.provider].refresh_token)
          /\ store'[c.provider].access_token = c.resp.body["access_token"]
          /\ store'[c.provider].expires_at = ExpiryOf(c.resp.body, now)]_vars

\* C1 witness: strava's record pairs the second access token with the first
\* refresh token, and refresh_tokens has just returned exactly that.
C1_Witness ==
  /\ result.op = "refresh_tokens"
  /\ result.out = "none"
  /\ "strava" \in DOMAIN store
  /\ store["strava"].access_token = "A2"
  /\ store["strava"].refresh_token = "R1"
  /\ result.ret["refresh_token"] = "R1"

\* C2: a refresh whose 2xx response carries a refresh_token persists a
\* record with that refresh token, replacing the one it had read.
C2_RotatedRefreshTokenIsStored ==
  [][\A c \in Calls :
       (RefreshSucceeds(c) /\ "refresh_token" \in DOMAIN c.resp.body)
       => /\ result'.out = "none"
          /\ c.provider \in DOMAIN store'
          /\ store'[c.provider].refresh_token = c.resp.body["refresh_token"]]_vars

\* C2 witness: the record read had R1, the response brought R2, R2 is stored.
C2_Witness ==
  /\ result.op = "refresh_tokens"
  /\ result.out = "none"
  /\ "strava" \in DOMAIN store
  /\ store["strava"].refresh_token = "R2"
  /\ store["strava"].access_token = "A2"
  /\ latest["strava"] = "R2"

\* C3: every record in the token store carries a refresh_token that is
\* present, non-null and non-empty.
C3_StoredRefreshTokenAlwaysUsable ==
  \A p \in DOMAIN store : Truthy(store[p].refresh_token)

\* C4: get_valid_access_token(P) on a record that is not expired (now is
\* not greater than expires_at - 300) returns the stored access_token,
\* sends nothing and leaves the store as it is; called right after a
\* get_valid_access_token(P) that returned, it returns the same token.
C4_ValidReadIsIdempotent ==
  [][\A p \in ProviderIds :
       ( /\ p \in DOMAIN store
         /\ ~(now > store[p].expires_at - 300)
         /\ GetValidAccessToken(p) )
       => /\ result' = Result("get_valid_access_token", p, "none", "", Str(store[p].access_token))
          /\ inflight' = inflight
          /\ posted' = posted
          /\ store' = store
          /\ ( ( /\ result.op = "get_valid_access_token"
                 /\ result.provider = p
                 /\ result.out = "none" )
               => result'.ret = result.ret )]_vars

\* C4 witness: get_valid_access_token has just returned strava's stored
\* token at the very edge of the buffer; the only POST ever sent is the
\* code exchange's.
C4_Witness ==
  /\ "strava" \in DOMAIN store
  /\ now = store["strava"].expires_at - 300
  /\ result = Result("get_valid_access_token", "strava", "none", "", Str(store["strava"].access_token))
  /\ inflight = EmptyBag
  /\ posted = 1

\* the POST of get_valid_access_token(p)'s refresh of the record tk
RefreshPost(p, tk) == Call("get_valid_access_token", "refresh_token", p, tk)

\* C5 as claimed: with a stored refresh token and expires_at - now <= 300,
\* get_valid_access_token sends one refresh POST.
C5_RefreshWithinBufferInclusive ==
  [][\A p \in ProviderIds :
       ( /\ p \in DOMAIN store
         /\ Truthy(store[p].refresh_token)
         /\ store[p].expires_at - now <= 300
         /\ GetValidAccessToken(p) )
       => /\ inflight' = inflight (+) One(RefreshPost(p, store[p]))
          /\ posted' = posted + 1]_vars

\* C5 amended: with a stored refresh token and expires_at - now < 300,
\* get_valid_access_token sends exactly one refresh POST (with the stored
\* refresh token) before it returns: one when it is called, none when it
\* is resumed with the response.
C5_RefreshWithinBuffer ==
  [][/\ \A p \in ProviderIds :
          ( /\ p \in DOMAIN store
            /\ Truthy(store[p].refresh_token)
            /\ store[p].expires_at - now < 300
            /\ GetValidAccessToken(p) )
          => /\ inflight' = inflight (+) One(RefreshPost(p, store[p]))
             /\ posted' = posted + 1
             /\ result' = NoResult
     /\ \A c \in Calls :
          RefreshComplete(c)
          => /\ inflight' = inflight (-) One(c)
             /\ posted' = posted
             /\ result'.out # "pending"]_vars

\* C5 witness: a get_valid_access_token refresh of strava's record is in
\* flight, sent 150 s before the record's expires_at.
C5_Witness ==
  /\ "strava" \in DOMAIN store
  /\ store["strava"].expires_at - now = 150
  /\ BagIn(RefreshPost("strava", store["strava"]), inflight)
  /\ posted = 2

\* the refresh POSTs of get_valid_access_token(p) awaiting their response
RefreshesAwaited(p) ==
  LET cs == {c \in DOMAIN inflight : c = RefreshPost(p, c.tokens)}
  IN [c \in cs |-> inflight[c]]

\* C6: at most one refresh request per provider is in flight at any time.
C6_AtMostOneRefreshInFlight ==
  \A p \in SUPPORTED_PROVIDERS : BagCardinality(RefreshesAwaited(p)) <= 1

\* C7: once every call has ended, the stored refresh token (when the store
\* holds a usable one) is the one the provider issued most recently.
C7_NewestRefreshTokenStored ==
  inflight = EmptyBag
  => \A p \in DOMAIN store :
       Truthy(store[p].refresh_token) => store[p].refresh_token = latest[p]

\* C8 as claimed: a code exchange that returns leaves the record
\* [access_token, refresh_token of the response, now + expires_in].
C8_ExchangeExpiryIsNowPlusExpiresIn ==
  [][\A c \in Calls :
       ( /\ ExchangeSucceeds(c)
         /\ result'.out = "none"
         /\ "expires_in" \in DOMAIN c.resp.body )
       => /\ c.provider \in DOMAIN store'
          /\ store'[c.provider] =
               [ access_token  |-> c.resp.body["access_token"],
                 refresh_token |-> c.resp.body["refresh_token"],
                 expires_at    |-> now + c.resp.body["expires_in"] ]]_vars

\* C8 amended: a code exchange whose 2xx response carries access_token and
\* refresh_token returns and leaves exactly one record for P, made of the
\* response's access_token and refresh_token and of the response's
\* expires_at when it has one, else now + expires_in when it has that,
\* else 0; the other providers' records stay.
C8_ExchangeOverwritesRecord ==
  [][\A c \in Calls :
       (ExchangeSucceeds(c) /\ "refresh_token" \in DOMAIN c.resp.body)
       => /\ result'.out = "none"
          /\ DOMAIN store' = DOMAIN store \cup {c.provider}
          /\ store'[c.provider] =
               [ access_token  |-> c.resp.body["access_token"],
                 refresh_token |-> c.resp.body["refresh_token"],
                 expires_at    |-> ExpiryOf(c.resp.body, now) ]
          /\ \A q \in DOMAIN store \ {c.provider} : store'[q] = store[q]]_vars

\* C8 witness: a second exchange for strava has just replaced the record;
\* its response carried expires_in and an expires_at that is not
\* now + expires_in, and the record has the response's expires_at.
C8_Witness ==
  /\ result.op = "exchange_code_for_tokens"
  /\ result.provider = "strava"
  /\ result.out = "none"
  /\ posted = 2
  /\ latest["strava"] = "R2"
  /\ store["strava"] = [access_token |-> "A2", refresh_token |-> "R2", expires_at |-> 600]
  /\ "expires_in" \in DOMAIN result.ret
  /\ now + result.ret["expires_in"] # 600

\* C9: get_valid_access_token(P) called right after logout deleted P's
\* record raises the not-authenticated ValueError (telling the caller to
\* authenticate again), sends nothing and creates no record.
C9_DeletedThenNotAuthenticated ==
  [][\A p \in SUPPORTED_PROVIDERS :
       ( /\ result = Result("logout", p, "none", "", None)
         /\ GetValidAccessToken(p) )
       => /\ result'.op = "get_valid_access_token"
          /\ result'.out = "ValueError"
          /\ result'.msg \in {MSG_REAUTHENTICATE, MSG_VISIT_LOGIN}
          /\ inflight' = inflight
          /\ posted' = posted
          /\ store' = store
          /\ p \notin DOMAIN store']_vars

\* C9 witness: strava had been authenticated (its provider has issued a
\* refresh token), its record is gone, and get_valid_access_token has just
\* raised.
C9_Witness ==
  /\ result.op = "get_valid_access_token"
  /\ result.provider = "strava"
  /\ result.out = "ValueError"
  /\ latest["strava"] # NULL
  /\ "strava" \notin DOMAIN store
  /\ inflight = EmptyBag

\* C10: for a provider id outside the supported set, each of the four
\* operations fails with UnknownProvider, sends nothing and leaves the
\* store as it is.
C10_UnknownProviderError ==
  [][\A p \in ProviderIds \ SUPPORTED_PROVIDERS :
       (AuthorizeUrl(p) \/ ExchangeStart(p) \/ RefreshStart(p) \/ GetValidAccessToken(p))
       => /\ result'.out = "UnknownProvider"
          /\ inflight' = inflight
          /\ posted' = posted
          /\ store' = store]_vars

\* C11: an exchange_code_for_tokens or refresh_tokens call whose POST is
\* answered with a status outside 200..299 ends with the HTTP status error
\* raised to its caller, sends no further POST (its one POST is not
\* retried) and leaves the store, the previous record included, as it was.
C11_ProviderErrorLeavesStore ==
  [][\A c \in Calls :
       ( /\ c.resp # None
         /\ c.resp.status \notin 200..299
         /\ (ExchangeComplete(c) \/ RefreshComplete(c)) )
       => /\ result'.op = c.op
          /\ result'.out = "HTTPStatusError"
          /\ posted' = posted
          /\ inflight' = inflight (-) One(c)
          /\ store' = store]_vars

\* C11 witness: refresh_tokens has just failed on the provider's error
\* status; strava's record from the code exchange still has R1, and the
\* two POSTs ever sent are the exchange's and the refresh's.
C11_Witness ==
  /\ result = Result("refresh_tokens", "strava", "HTTPStatusError", "", None)
  /\ "strava" \in DOMAIN store
  /\ store["strava"].refresh_token = "R1"
  /\ store["strava"].access_token = "A1"
  /\ posted = 2
  /\ issued = 1
  /\ inflight = EmptyBag

\* C12: refresh_tokens(P) for a supported P with no stored record, or with
\* a stored record whose refresh_token is null or empty, raises the
\* not-authenticated ValueError, sends no POST and leaves the store alone.
C12_RefreshWithoutTokenFails ==
  [][\A p \in SUPPORTED_PROVIDERS :
       ( /\ (p \notin DOMAIN store \/ store[p].refresh_token \in {NULL, ""})
         /\ RefreshStart(p) )
       => /\ result' = Result("refresh_tokens", p, "ValueError", MSG_REAUTHENTICATE, None)
          /\ inflight' = inflight
          /\ posted' = posted
          /\ store' = store]_vars

\* C12 witness: strava has a record, whose refresh_token is null, and
\* refresh_tokens has just raised.
C12_Witness ==
  /\ result = Result("refresh_tokens", "strava", "ValueError", MSG_REAUTHENTICATE, None)
  /\ "strava" \in DOMAIN store
  /\ store["strava"].refresh_token = NULL
  /\ posted = 1

\* C13: a record is stored for a provider only if a code exchange for that
\* provider has completed successfully before; refresh_tokens,
\* get_valid_access_token and logout create none for a provider that was
\* never exchanged.
C13_RecordOnlyAfterExchange ==
  \A p \in DOMAIN store : p \in SUPPORTED_PROVIDERS /\ phase[p] # "never"

\* C13 witness: refresh_tokens has just written strava's record, strava
\* having been exchanged; a refresh for whoop, never exchanged, would have
\* had no record to start from, and whoop has none.
C13_Witness ==
  /\ result.op = "refresh_tokens"
  /\ result.provider = "strava"
  /\ result.out = "none"
  /\ "strava" \in DOMAIN store
  /\ phase["strava"] = "exchanged"
  /\ phase["whoop"] = "never"
  /\ "whoop" \notin DOMAIN store

\* C14: get_valid_access_token(P), having found the stored token expired
\* and got a 2xx response to its refresh, returns the response's
\* access_token, and at that moment the stored record of P has that same
\* access_token.
C14_RefreshedTokenReturnedAndStored ==
  [][\A c \in Calls :
       (c.op = "get_valid_access_token" /\ RefreshSucceeds(c))
       => /\ result' = Result("get_valid_access_token", c.provider, "none", "",
                              Str(c.resp.body["access_token"]))
          /\ c.provider \in DOMAIN store'
          /\ store'[c.provider].access_token = c.resp.body["access_token"]]_vars

\* C14 witness: get_valid_access_token has just returned A2, the token of the
\* refresh response, in place of the expired A1 of the code exchange.
C14_Witness ==
  /\ result = Result("get_valid_access_token", "strava", "none", "", Str("A2"))
  /\ "strava" \in DOMAIN store
  /\ store["strava"].access_token = "A2"
  /\ posted = 2
  /\ inflight = EmptyBag

\* the value of the query parameter `name` of a URL
Param(url, name) ==
  LET i == CHOOSE k \in 1..Len(url.query) : url.query[k][1] = name
  IN url.query[i][2]

\* the scope names of a scope string, in order: the string split at the
\* separator characters
RECURSIVE SplitScopes(_)
SplitScopes(str) ==
  IF str = <<>> THEN << <<>> >>
  ELSE LET rest == SplitScopes(Tail(str)) IN
       IF Head(str) \in Separators
       THEN << <<>> >> \o rest
       ELSE << <<Head(str)>> \o rest[1] >> \o Tail(rest)

\* C15: the URL get_authorize_url(P) returns for P in {strava, whoop} has
\* as scope parameter the provider's scopes joined by the provider's
\* scope_separator, and as redirect_uri {app_base_url}/auth/{P}/callback,
\* whatever scopes and base URL are configured.
C15_ScopeJoinedBySeparator ==
  \A p \in SUPPORTED_PROVIDERS :
    (result.op = "get_authorize_url" /\ result.provider = p)
    => /\ result.out = "none"
       /\ Param(result.ret, "scope")
            = Join(SplitScopes(PROVIDERS[p].scopes), PROVIDERS[p].scope_separator)
       /\ Param(result.ret, "redirect_uri")
            = settings.app_base_url \o <<"/", "auth", "/", p, "/", "callback">>

\* C16: get_authorize_url(P) sends no POST and leaves the token store as
\* it is, and the URL it returns is made of P and the configuration alone
\* (endpoint, client_id, redirect_uri, response_type=code, scope), the same
\* whatever is stored for P.
C16_AuthorizeUrlHasNoSideEffects ==
  [][\A p \in SUPPORTED_PROVIDERS :
       AuthorizeUrl(p)
       => /\ store' = store
          /\ inflight' = inflight
          /\ posted' = posted
          /\ result'.op = "get_authorize_url"
          /\ result'.out = "none"
          /\ result'.ret.endpoint = PROVIDERS[p].auth_url
          /\ Len(result'.ret.query) = 4
          /\ Param(result'.ret, "client_id") = PROVIDERS[p].client_id
          /\ Param(result'.ret, "redirect_uri")
               = settings.app_base_url \o <<"/", "auth", "/", p, "/", "callback">>
          /\ Param(result'.ret, "response_type") = <<"code">>
          /\ Param(result'.ret, "scope") = PROVIDERS[p].scopes]_vars

\* C16 witness: get_authorize_url has just returned strava's URL while a
\* record is stored for strava and a refresh of it is in flight.
C16_Witness ==
  /\ result.op = "get_authorize_url"
  /\ result.provider = "strava"
  /\ result.out = "none"
  /\ "strava" \in DOMAIN store
  /\ \E c \in Calls : c.provider = "strava" /\ c.grant = "refresh_token"

\* the step leaves the records of all providers but p as they are
OthersKept(p) ==
  \A q \in ProviderIds \ {p} :
    /\ q \in DOMAIN store' <=> q \in DOMAIN store
    /\ q \in DOMAIN store => store'[q] = store[q]

\* C17: the end of a code exchange or of a refresh for P, and a logout of P,
\* leave the stored records of every other provider unchanged, whatever
\* calls for other providers are suspended in their POST at that time.
C17_OtherProvidersUntouched ==
  [][/\ \A c \in Calls : (ExchangeComplete(c) \/ RefreshComplete(c)) => OthersKept(c.provider)
     /\ \A p \in SUPPORTED_PROVIDERS : Logout(p) => OthersKept(p)]_vars

\* C17 witness: the exchanges for whoop and strava overlapped (whoop's POST
\* was answered first, strava's call ended first), whoop's has just ended,
\* and both records are stored.
C17_Witness ==
  /\ result.op = "exchange_code_for_tokens"
  /\ result.provider = "whoop"
  /\ result.out = "none"
  /\ latest = [p \in SUPPORTED_PROVIDERS |-> IF p = "whoop" THEN "R1" ELSE "R2"]
  /\ DOMAIN store = {"strava", "whoop"}
  /\ store["strava"].refresh_token = "R2"
  /\ store["whoop"].refresh_token = "R1"

\* C18: the record a code exchange or a refresh writes has the response's
\* expires_at when the response carries one (its expires_in is then not
\* looked at), now + expires_in when the response carries expires_in
\* alone, and 0 when it carries neither.
C18_ExpiryPrecedence ==
  [][\A c \in Calls :
       ((ExchangeSucceeds(c) \/ RefreshSucceeds(c)) /\ result'.out = "none")
       => LET body == c.resp.body
              stored == store'[c.provider].expires_at
          IN /\ "expires_at" \in DOMAIN body => stored = body["expires_at"]
             /\ ("expires_at" \notin DOMAIN body /\ "expires_in" \in DOMAIN body)
                  => stored = now + body["expires_in"]
             /\ ("expires_at" \notin DOMAIN body /\ "expires_in" \notin DOMAIN body)
                  => stored = 0]_vars

\* C18 witness: at time 150 a refresh response with expires_in 300 and
\* expires_at 600 has been stored: the record expires at 600, not at 450.
C18_Witness ==
  /\ result.op = "refresh_tokens"
  /\ result.provider = "strava"
  /\ result.out = "none"
  /\ now = 150
  /\ {"expires_in", "expires_at"} \subseteq DOMAIN result.ret
  /\ result.ret["expires_in"] = 300
  /\ store["strava"].expires_at = 600

\* C19: from a logout of P until the next successful code exchange for P,
\* no record is stored for P, whatever refresh of P was awaiting its
\* response when the logout ran.
C19_DeletedStaysDeleted ==
  \A p \in SUPPORTED_PROVIDERS : phase[p] = "deleted" => p \notin DOMAIN store

\* C20: get_valid_access_token never raises the "Visit /auth/{provider}/login"
\* error; called for a supported provider with no stored record it raises
\* the "Re-authenticate" error of refresh_tokens, and sends nothing.
C20_VisitLoginBranchUnreachable ==
  [][/\ result'.msg # MSG_VISIT_LOGIN
     /\ \A p \in SUPPORTED_PROVIDERS :
          (p \notin DOMAIN store /\ GetValidAccessToken(p))
          => /\ result' = Result("get_valid_access_token", p, "ValueError",
                                 MSG_REAUTHENTICATE, None)
             /\ posted' = posted
             /\ store' = store]_vars

\* C20 witness: with nothing stored and nothing sent yet,
\* get_valid_access_token("whoop") has just raised the refresh_tokens error.
C20_Witness ==
  /\ result = Result("get_valid_access_token", "whoop", "ValueError", MSG_REAUTHENTICATE, None)
  /\ store = <<>>
  /\ posted = 0

\* the pages of a list, one after the other
RECURSIVE Flatten(_)
Flatten(pages) ==
  IF pages = <<>> THEN <<>> ELSE Head(pages) \o Flatten(Tail(pages))

\* get_all_activities asks for pages 1, 2, 3, ... with per_page = 200; a page
\* is asked for only after every page before it came back full; the i-th
\* answer is taken in as the i-th page; once the last answer is short or
\* empty the call is over; all_activities is the pages so far in order
PagesInOrder ==
  /\ \A i \in 1..Len(sent) : sent[i].page = i /\ sent[i].per_page = 200
  /\ Len(batches) <= Len(sent)
  /\ Len(sent) <= Len(batches) + 1
  /\ \A i \in 1..Len(batches) : i < Len(sent) => batches[i] = 200
  /\ (batches # <<>> /\ batches[Len(batches)] < 200)
       => (pc = "done" /\ Len(sent) = Len(batches))
  /\ pc = "done" => (batches # <<>> /\ batches[Len(batches)] < 200)
  /\ all_activities = Flatten([i \in 1..Len(batches) |-> Batch(i, batches[i])])

\* a GET is sent only in a step in which get_valid_access_token("strava") has
\* returned, with the token it returned, which is the stored one
TokenBeforeEachPage ==
  sent' # sent
  => /\ result'.op = "get_valid_access_token"
     /\ result'.provider = "strava"
     /\ result'.out = "none"
     /\ sent' = Append(sent, PageRequest(Len(sent) + 1, result'.ret.str))
     /\ "strava" \in DOMAIN store'
     /\ store'["strava"].access_token = result'.ret.str

\* C21: get_all_activities requests pages 1, 2, 3, ... in order with
\* per_page = 200, requests no page after the first one that comes back
\* empty or with fewer than 200 items, and returns the fetched pages
\* concatenated in page order; every page request is sent with a token
\* get_valid_access_token has just returned; and, the API running out of
\* full pages, a call that has started comes to its end.
C21_PagesFetchedInOrder ==
  /\ []PagesInOrder
  /\ [][TokenBeforeEachPage]_vars
  /\ (pc \in {"refresh", "get"}) ~> (pc \in {"done", "failed"})

\* C21 witness: the call has returned two full pages and one of 199 items,
\* 599 activities in page order, the token having been refreshed between
\* the first request and the last.
C21_Witness ==
  /\ pc = "done"
  /\ Len(sent) = 3
  /\ sent[1].token = "A1"
  /\ sent[3].token = "A2"
  /\ batches = <<200, 200, 199>>
  /\ Len(all_activities) = 599
  /\ all_activities[1] = <<1, 1>>
  /\ all_activities[201] = <<2, 1>>
  /\ all_activities[599] = <<3, 199>>

====
